---- MODULE Spec2Model ----
(***************************************************************************)
(* A model of the product scraper in src/main.py: the folder-name          *)
(* sanitizer, the image downloader, the rows of product_details.csv and    *)
(* the driver loop of main() with its nested exception handlers.           *)
(*                                                                         *)
(* Strings are sequences of one-character strings.  External collaborators *)
(* (the browser engine, the HTTP fetcher) are nondeterministic choices     *)
(* over the outcomes the code distinguishes.                               *)
(***************************************************************************)
EXTENDS Integers, Sequences, FiniteSets, TLC

VARIABLES
    \* ---- sanitize_folder_name harness ----
    sanPc,          \* "idle" | "in" | "once" | "twice"
    sanIn,          \* the input string
    sanOut,         \* sanitize_folder_name(sanIn)
    sanTwice,       \* sanitize_folder_name(sanOut)
    \* ---- main(): control ----
    pc,                     \* position in main()
    limit,                  \* NUMBER_OF_PRODUCTS_TO_SCRAPE
    total_products_found,   \* len(product_tiles); tiles are numbered 1..total in discovery order
    products_to_process,
    index,                  \* loop variable of line 86 (0 before the loop)
    tile,                   \* loop variable of line 86: the tile being processed
    runResult,              \* how the try block of line 64 ended (lines 267, 277, 279)
    \* ---- main(): per-product locals ----
    product_name,
    folder_name,            \* product_folder is scraped_products/<folder_name>
    swatch_buttons,         \* the button list of lines 147-150 (buttons are numbered in discovery order)
    swatch_index,           \* loop variable of line 154
    \* ---- durable storage ----
    folder_made,            \* os.makedirs(product_folder) has succeeded for the current product
    files,                  \* files of the current product_folder: file name -> content
    \* ---- browser session ----
    quitCount,              \* number of driver.quit() calls
    opAfterQuit,            \* a browser operation was issued after driver.quit()
    \* ---- observation of the run (history) ----
    attempted,              \* tiles whose processing was started, in order
    aborted,                \* indexes caught by the per-entry handler (line 262)
    recorded,               \* indexes whose product_details.csv was written
    undetailed,             \* indexes whose item-detail lookup raised NoSuchElementException (line 254)
    stepsRun,               \* steps of the current product that were started (1..4)
    raised,                 \* exceptions that reached a step's try block: [step, kind, caught]
    loopEntered,            \* the swatch loop of line 154 was entered for the current product
    ctlAttempted,           \* swatch ordinals of the current product whose handling was started
    ctlFailed,              \* swatch ordinals whose handling raised
    ctlCaptured,            \* buttons activated, with an image URL, and downloaded
    swatchWritten,          \* swatch files written by the current product's loop
    ctlEvents,              \* the calls made for a button by the step just taken, with their results, in order
    dl,                     \* the download_image call of the step just taken, if any
    \* ---- details/pricing harness (lines 190-246) ----
    csv                     \* the texts read from a tile and the rows written for them

sanVars == <<sanPc, sanIn, sanOut, sanTwice>>
ctrlVars == <<pc, runResult, limit, total_products_found, products_to_process, index, tile>>
prodVars == <<product_name, folder_name, swatch_buttons, swatch_index>>
storeVars == <<folder_made, files>>
sessVars == <<quitCount, opAfterQuit>>
loopHist == <<attempted, aborted, recorded, undetailed>>
stepHist == <<stepsRun, raised>>
ctlHist == <<loopEntered, ctlAttempted, ctlFailed, ctlCaptured, swatchWritten>>
stepObs == <<ctlEvents, dl>>
csvVars == <<csv>>

\* the fields of the details harness
csvPc == csv.pc                     \* "idle" | "in" | "written"
csvName == csv.name                 \* product_name of the record
detail_text == csv.detail_text      \* item_detail.text (line 193)
pricing_found == csv.pricing_found  \* the item-pricing lookup of line 198 found the element
pricing_text == csv.pricing_text    \* pricing_text (lines 196-199)
csvRows == csv.rows                 \* the rows written by lines 216-246, in order

(***************************************************************************)
(* Bounds of the model                                                     *)
(***************************************************************************)
\* longest freely chosen tail of a sanitizer input
MaxTail == 3
\* most product tiles the page shows
MaxTiles == 2
\* largest configured NUMBER_OF_PRODUCTS_TO_SCRAPE
MaxLimit == 2
\* most swatch buttons of one tile
MaxSwatch == 2
\* longest item-detail text
MaxText == 4
\* longest item-pricing text
MaxPricingText == 2

(***************************************************************************)
(* sanitize_folder_name (src/main.py:16-27)                                *)
(***************************************************************************)
\* the character class of line 19: [<>:"/\\|?*]
IllegalChars == {"<", ">", ":", "\"", "/", "\\", "|", "?", "*"}

\* characters matched by \s (line 21) and removed by str.strip() (line 23)
Whitespace == {" ", "\t", "\n", "\r", "\f"}

\* line 25-26: the length limit
MaxFolderLen == 100

IsLegal(c) == c \notin IllegalChars

\* variant of RemoveIllegal: a character class that misses * and /
RemoveIllegalDropsSome(s) ==
    LET keep(c) == c \notin (IllegalChars \ {"*", "/"}) IN SelectSeq(s, keep)

\* line 19: name = re.sub(r'[<>:"/\\|?*]', '', name)
RemoveIllegal(s) == SelectSeq(s, IsLegal)

\* line 21: name = re.sub(r'\s+', ' ', name)
\* every maximal run of whitespace becomes one space
CollapseWhitespace(s) ==
    LET marked == [i \in 1..Len(s) |->
                      IF s[i] \in Whitespace
                      THEN IF i > 1 /\ s[i-1] \in Whitespace THEN "" ELSE " "
                      ELSE s[i]]
        kept(c) == c # ""
    IN SelectSeq(marked, kept)

\* line 23 (also line 100): str.strip()
Strip(s) ==
    LET solid == {i \in 1..Len(s) : s[i] \notin Whitespace} IN
    IF solid = {} THEN <<>>
    ELSE LET lo == CHOOSE i \in solid : \A j \in solid : i <= j
             hi == CHOOSE i \in solid : \A j \in solid : j <= i
         IN SubSeq(s, lo, hi)

\* line 25-26: if len(name) > 100: name = name[:100]
Truncate(s) == IF Len(s) > MaxFolderLen THEN SubSeq(s, 1, MaxFolderLen) ELSE s

\* lines 16-27, in the order of the code: remove, collapse, strip, truncate
sanitize_folder_name(name) ==
    Truncate(Strip(CollapseWhitespace(RemoveIllegal(name))))

(***************************************************************************)
(* Inputs of the sanitizer harness: a run of ordinary characters of a      *)
(* length around the limit of line 25, followed by a freely chosen tail.   *)
(***************************************************************************)
SanAlphabet == {"a", " ", "\t", "/", "*"}

PadLens == {0, 1, MaxFolderLen - 3, MaxFolderLen - 2, MaxFolderLen - 1, MaxFolderLen}

Pad(n) == [i \in 1..n |-> "a"]

Tails == UNION {[1..n -> SanAlphabet] : n \in 0..MaxTail}

SanInputs == {Pad(n) \o t : n \in PadLens, t \in Tails}

SanIdle ==
    /\ sanPc = "idle"
    /\ sanIn = <<>>
    /\ sanOut = <<>>
    /\ sanTwice = <<>>

SanInit ==
    /\ sanPc = "in"
    /\ sanIn \in SanInputs
    /\ sanOut = <<>>
    /\ sanTwice = <<>>

\* folder_name = sanitize_folder_name(product_name)
SanApply ==
    /\ sanPc = "in"
    /\ sanOut' = sanitize_folder_name(sanIn)
    /\ sanPc' = "once"
    /\ UNCHANGED <<sanIn, sanTwice>>

\* the result fed to the function again
SanReapply ==
    /\ sanPc = "once"
    /\ sanTwice' = sanitize_folder_name(sanOut)
    /\ sanPc' = "twice"
    /\ UNCHANGED <<sanIn, sanOut>>

vars == <<sanVars, ctrlVars, prodVars, storeVars, sessVars, loopHist, stepHist, ctlHist, stepObs, csvVars>>

(***************************************************************************)
(* download_image (src/main.py:29-40)                                      *)
(***************************************************************************)
Payloads == {"B1"}

\* status codes a response can carry
Statuses == {200, 203, 404}

\* outcomes of requests.get(image_url, timeout=10), line 32
Fetches ==
    [kind : {"response"}, status : Statuses, content : Payloads]
    \cup [kind : {"timeout", "error"}, status : {0}, content : {"none"}]

NoFetch == [kind |-> "none", status |-> 0, content |-> "none"]

EmptyDir == << >>

FileAt(fs, f) == IF f \in DOMAIN fs THEN fs[f] ELSE "absent"

\* lines 34-35: open(filename, 'wb') truncates or creates, write() stores the payload
WriteFile(fs, f, content) == (f :> content) @@ fs

\* variant of StatusOk: no status check
StatusOkAny(status) == TRUE

\* line 33: response.status_code == 200
StatusOk(status) == status = 200

\* lines 29-40: the returned value, the storage afterwards, the lines printed
download_image(fetch, filename, fs) ==
    IF fetch.kind = "response"
    THEN IF StatusOk(fetch.status)
         THEN [ok |-> TRUE, files |-> WriteFile(fs, filename, fetch.content),
               log |-> <<"success">>]
         ELSE [ok |-> FALSE, files |-> fs, log |-> << >>]
    ELSE [ok |-> FALSE, files |-> fs, log |-> <<"failure">>]

NoDownload ==
    [called |-> FALSE, file |-> "none", fetch |-> NoFetch, before |-> "absent",
     ok |-> FALSE, log |-> << >>]

\* the observation of one download_image call
DownloadObs(fetch, filename, fs) ==
    LET d == download_image(fetch, filename, fs) IN
    [called |-> TRUE, file |-> filename, fetch |-> fetch, before |-> FileAt(fs, filename),
     ok |-> d.ok, log |-> d.log]

(***************************************************************************)
(* main(): names, folders and files (src/main.py:98-121, 131, 176, 204)        *)
(***************************************************************************)
Digits == <<"0", "1", "2", "3", "4", "5", "6", "7", "8", "9">>

RECURSIVE DecStr(_)
DecStr(n) == IF n < 10 THEN <<Digits[n + 1]>> ELSE DecStr(n \div 10) \o <<Digits[(n % 10) + 1]>>

\* lines 103, 118: f"Product_{index}"
DefaultName(i) == <<"P", "r", "o", "d", "u", "c", "t", "_">> \o DecStr(i)

\* texts the product-name element can show
RawNames == {<< >>, <<" ", "A", "/">>, <<"?">>}

\* lines 100-103: the name after strip(), or the positional default when it is empty
ResolveName(text, i) == IF Strip(text) = << >> THEN DefaultName(i) ELSE Strip(text)

MainImageFile == "main_image.jpg"

\* variant of SwatchFile: numbered by the count of files written so far
SwatchFileRenumbered(n) == "swatch_" \o ToString(Cardinality(swatchWritten) + 1) \o ".jpg"

\* line 176: f"swatch_{swatch_index}.jpg"
SwatchFile(n) == "swatch_" \o ToString(n) \o ".jpg"

CsvFile == "product_details.csv"

\* what a product folder can hold before the product is processed
\* (os.makedirs(..., exist_ok=True), lines 113 and 121, accepts an existing folder)
Leftovers == {EmptyDir, (MainImageFile :> "old") @@ (SwatchFile(1) :> "old")}

(***************************************************************************)
(* main(): exception handlers                                              *)
(***************************************************************************)
NSE == "NoSuchElementException"
Other == "Exception"

\* variant of StepHandler: every step handler written as except Exception
StepHandlerCatchAll(kind) == "step"

\* lines 116, 136, 185, 254: except NoSuchElementException (the step's handler);
\* line 262: except Exception (the per-entry handler)
StepHandler(kind) == IF kind = NSE THEN "step" ELSE "entry"

Raise(step, kind) == [step |-> step, kind |-> kind, caught |-> StepHandler(kind)]

\* variant of AfterRaise: whatever a step raises, the next step follows
AfterRaiseAlwaysNext(kind, next) == next

\* where control goes after an exception of `kind` in a step whose normal successor is `next`
AfterRaise(kind, next) == IF StepHandler(kind) = "step" THEN next ELSE "productExcept"

\* variant of AfterControl: a failed button ends the loop
AfterControlBreak(failed) == IF failed THEN "details" ELSE "swatchLoop"

\* lines 179-181: except Exception ... continue; a control that did not fail also
\* falls through to the next iteration of line 154
AfterControl(failed) == "swatchLoop"

\* variant of AfterEntryHandler: a failed entry ends the loop
EntryHandlerStops == "summary"

\* lines 262-264: except Exception ... continue
AfterEntryHandler == "loop"

\* variant of Min: the limit is ignored
MinTakesSecond(a, b) == b

\* line 82: min(NUMBER_OF_PRODUCTS_TO_SCRAPE, total_products_found)
Min(a, b) == IF a <= b THEN a ELSE b

\* variant of SlicePrefix: the whole list, whatever n is
SliceWhole(s, n) == s

\* line 86: product_tiles[:n] for n >= 0
SlicePrefix(s, n) == SubSeq(s, 1, Min(n, Len(s)))

\* the list returned by wait.until, tiles numbered in discovery order
product_tiles == [i \in 1..total_products_found |-> i]

\* every browser call is observed against the release of the session
BrowserOp == opAfterQuit' = (opAfterQuit \/ quitCount > 0)

ResetProductHist ==
    /\ stepsRun' = {}
    /\ raised' = {}
    /\ loopEntered' = FALSE
    /\ ctlAttempted' = << >>
    /\ ctlFailed' = {}
    /\ ctlCaptured' = {}
    /\ swatchWritten' = {}

\* The locals of the loop body and the view of the product folder carry nothing
\* from one iteration to the next: every iteration assigns product_name and
\* product_folder (lines 100-121) before it reads them, and swatch_buttons and
\* swatch_index (lines 147-154) before the swatch loop reads them.  They are
\* dropped when the iteration ends.
UnsetLocals ==
    /\ product_name' = << >>
    /\ folder_name' = << >>
    /\ swatch_buttons' = << >>
    /\ swatch_index' = 0
    /\ folder_made' = FALSE
    /\ files' = EmptyDir

\* a step that handles no button and downloads nothing
NoStepObs ==
    /\ ctlEvents' = << >>
    /\ dl' = NoDownload

(***************************************************************************)
(* main(): the rows of product_details.csv (src/main.py:196-246)           *)
(***************************************************************************)
\* str.split('\n') (lines 208-209): the text between the line breaks; a text
\* without a break, the empty text included, is one line
SplitLines(s) ==
    LET breaks == {i \in 1..Len(s) : s[i] = "\n"}
        n == Cardinality(breaks) + 1
        brk(k) == IF k = 0 THEN 0
                  ELSE IF k = n THEN Len(s) + 1
                  ELSE CHOOSE i \in breaks : Cardinality({j \in breaks : j < i}) = k - 1
    IN [k \in 1..n |-> SubSeq(s, brk(k - 1) + 1, brk(k) - 1)]

\* line 208: detail_text.strip().split('\n')
DetailLines(text) == SplitLines(Strip(text))

\* variant of PricingLines: the text is split whether or not it is empty
PricingLinesUnguarded(text) == SplitLines(Strip(text))

\* line 209: pricing_text.strip().split('\n') if pricing_text else []
PricingLines(text) == IF text # << >> THEN SplitLines(Strip(text)) ELSE << >>

\* lines 227, 240: ':' in line
HasColon(line) == \E i \in 1..Len(line) : line[i] = ":"

\* lines 228, 241: line.split(':', 1)
SplitColon(line) ==
    LET c == CHOOSE i \in 1..Len(line) :
                 line[i] = ":" /\ \A j \in 1..(i - 1) : line[j] # ":"
    IN <<SubSeq(line, 1, c - 1), SubSeq(line, c + 1, Len(line))>>

\* variant of LineOrdinal: the position among the non-blank lines
LineOrdinalNonBlank(lines, i) == Cardinality({j \in 1..i : Strip(lines[j]) # << >>})

\* lines 224, 237: the number enumerate(lines, 1) gives the i-th line
LineOrdinal(lines, i) == i

PricePrefix == <<"P", "r", "i", "c", "e">>
DetailPrefix == <<"D", "e", "t", "a", "i", "l">>

\* lines 233, 246: f'Price {i}', f'Detail {i}'
FallbackLabel(prefix, n) == prefix \o <<" ">> \o DecStr(n)

NoRow == << >>

\* lines 225-233, 238-246: the row written for the i-th line, if any
FieldRow(prefix, lines, i) ==
    LET line == Strip(lines[i]) IN
    IF line = << >> THEN NoRow
    ELSE IF HasColon(line)
         THEN <<Strip(SplitColon(line)[1]), Strip(SplitColon(line)[2])>>
         ELSE <<FallbackLabel(prefix, LineOrdinal(lines, i)), line>>

\* lines 224-233, 237-246: the rows of one block, in the order of its lines
ParseLines(prefix, lines) ==
    LET cand == [i \in 1..Len(lines) |-> FieldRow(prefix, lines, i)]
        written(r) == r # NoRow
    IN SelectSeq(cand, written)

HeaderRow == <<<<"F", "i", "e", "l", "d">>, <<"V", "a", "l", "u", "e">>>>
ProductNameLabel == <<"P", "r", "o", "d", "u", "c", "t", " ", "N", "a", "m", "e">>
PricingMarker ==
    <<<<"=", "=", "=", " ", "P", "R", "I", "C", "I", "N", "G", " ", "=", "=", "=">>, << >>>>
DetailsMarker ==
    <<<<"=", "=", "=", " ", "D", "E", "T", "A", "I", "L", "S", " ", "=", "=", "=">>, << >>>>

\* lines 216-246: every writer.writerow call, in order
WriteCsv(name, detail, pricing) ==
    <<HeaderRow, <<ProductNameLabel, name>>>>
    \o (IF PricingLines(pricing) # << >>
        THEN <<PricingMarker>> \o ParseLines(PricePrefix, PricingLines(pricing))
        ELSE << >>)
    \o <<DetailsMarker>>
    \o ParseLines(DetailPrefix, DetailLines(detail))

(***************************************************************************)
(* Inputs of the details harness                                           *)
(***************************************************************************)
TextAlphabet == {"a", ":", " ", "\n"}

Texts(n) == UNION {[1..k -> TextAlphabet] : k \in 0..n}

CsvNames == {ResolveName(t, 1) : t \in RawNames}

CsvIdle ==
    csv = [pc |-> "idle", name |-> << >>, detail_text |-> << >>, pricing_found |-> FALSE,
           pricing_text |-> << >>, rows |-> << >>]

\* lines 192-202: the texts read from the tile; pricing_text stays "" when the
\* item-pricing lookup raises NoSuchElementException
CsvInit ==
    \E name \in CsvNames, detail \in Texts(MaxText), found \in BOOLEAN :
        \E pricing \in (IF found THEN Texts(MaxPricingText) ELSE {<< >>}) :
            csv = [pc |-> "in", name |-> name, detail_text |-> detail, pricing_found |-> found,
                   pricing_text |-> pricing, rows |-> << >>]

\* lines 208-246
CsvWrite ==
    /\ csvPc = "in"
    /\ csv' = [csv EXCEPT !.pc = "written",
                          !.rows = WriteCsv(csvName, detail_text, pricing_text)]

(***************************************************************************)
(* main(): initial state, after setup_driver() (line 61)                   *)
(***************************************************************************)
MainStart ==
    /\ runResult = "running"
    /\ total_products_found = 0
    /\ products_to_process = 0
    /\ index = 0
    /\ tile = 0
    /\ product_name = << >>
    /\ folder_name = << >>
    /\ swatch_buttons = << >>
    /\ swatch_index = 0
    /\ folder_made = FALSE
    /\ files = EmptyDir
    /\ quitCount = 0
    /\ opAfterQuit = FALSE
    /\ attempted = << >>
    /\ aborted = {}
    /\ recorded = {}
    /\ undetailed = {}
    /\ stepsRun = {}
    /\ raised = {}
    /\ loopEntered = FALSE
    /\ ctlAttempted = << >>
    /\ ctlFailed = {}
    /\ ctlCaptured = {}
    /\ swatchWritten = {}
    /\ ctlEvents = << >>
    /\ dl = NoDownload

\* NUMBER_OF_PRODUCTS_TO_SCRAPE is the one setting of the script (line 58, 224 as
\* shipped); the model runs it over the small non-negative values.
Init ==
    /\ pc = "navigate"
    /\ limit \in 0..MaxLimit
    /\ MainStart
    /\ SanIdle
    /\ CsvIdle

\* line 68: driver.get(url)
Navigate ==
    /\ pc = "navigate"
    /\ NoStepObs
    /\ \E r \in {"ok", Other} :
           pc' = IF r = "ok" THEN "discover" ELSE "exceptOther"
    /\ BrowserOp
    /\ UNCHANGED <<runResult, limit, total_products_found, products_to_process, index, tile,
                   prodVars, storeVars, quitCount, loopHist, stepHist, ctlHist, sanVars, csvVars>>

\* lines 75-83: wait.until(presence_of_all_elements_located(...)), min(...)
Discover ==
    /\ pc = "discover"
    /\ NoStepObs
    /\ \/ \E n \in 1..MaxTiles :
              /\ total_products_found' = n
              /\ products_to_process' = Min(limit, n)
              /\ pc' = "loop"
       \/ /\ pc' = "exceptTimeout"
          /\ UNCHANGED <<total_products_found, products_to_process>>
       \/ /\ pc' = "exceptOther"
          /\ UNCHANGED <<total_products_found, products_to_process>>
    /\ BrowserOp
    /\ UNCHANGED <<runResult, limit, index, tile, prodVars, storeVars, quitCount,
                   loopHist, stepHist, ctlHist, sanVars, csvVars>>

\* lines 86-89: the next element of enumerate(product_tiles[:products_to_process], 1)
LoopNext ==
    /\ pc = "loop"
    /\ NoStepObs
    /\ index < Len(SlicePrefix(product_tiles, products_to_process))
    /\ index' = index + 1
    /\ tile' = SlicePrefix(product_tiles, products_to_process)[index + 1]
    /\ attempted' = Append(attempted, tile')
    /\ pc' = "scrollTile"
    /\ UNCHANGED <<runResult, limit, total_products_found, products_to_process, prodVars, storeVars,
                   sessVars, aborted, recorded, undetailed, stepHist, ctlHist, sanVars, csvVars>>

\* line 86: the slice is exhausted
LoopExit ==
    /\ pc = "loop"
    /\ NoStepObs
    /\ index >= Len(SlicePrefix(product_tiles, products_to_process))
    /\ pc' = "summary"
    /\ UNCHANGED <<runResult, limit, total_products_found, products_to_process, index, tile,
                   prodVars, storeVars, sessVars, loopHist, stepHist, ctlHist, sanVars, csvVars>>

\* line 93: driver.execute_script(scrollIntoView, tile)
ScrollTile ==
    /\ pc = "scrollTile"
    /\ NoStepObs
    /\ \E r \in {"ok", Other} :
           pc' = IF r = "ok" THEN "name" ELSE "productExcept"
    /\ BrowserOp
    /\ UNCHANGED <<runResult, limit, total_products_found, products_to_process, index, tile,
                   prodVars, storeVars, quitCount, loopHist, stepHist, ctlHist, sanVars, csvVars>>

\* lines 98-121: name resolution and folder creation
StepName ==
    /\ pc = "name"
    /\ NoStepObs
    /\ stepsRun' = stepsRun \cup {1}
    /\ BrowserOp
    /\ \/ \* find_element or .text raises something else than NoSuchElementException
          /\ raised' = raised \cup {Raise(1, Other)}
          /\ pc' = AfterRaise(Other, "mainImage")
          /\ UNCHANGED <<product_name, folder_name, storeVars>>
       \/ \* lines 99-114: the element is found
          \E text \in RawNames, mk \in {"ok", Other} :
              /\ product_name' = ResolveName(text, index)
              /\ folder_name' = sanitize_folder_name(product_name')
              /\ IF mk = "ok"
                 THEN /\ folder_made' = TRUE
                      /\ files' \in Leftovers
                      /\ raised' = raised
                      /\ pc' = "mainImage"
                 ELSE /\ folder_made' = FALSE
                      /\ files' = EmptyDir
                      /\ raised' = raised \cup {Raise(1, Other)}
                      /\ pc' = AfterRaise(Other, "mainImage")
       \/ \* lines 116-121: NoSuchElementException, the handler names the folder itself
          \E mk \in {"ok", Other} :
              /\ product_name' = DefaultName(index)
              /\ folder_name' = product_name'
              /\ IF mk = "ok"
                 THEN /\ folder_made' = TRUE
                      /\ files' \in Leftovers
                      /\ raised' = raised \cup {Raise(1, NSE)}
                      /\ pc' = AfterRaise(NSE, "mainImage")
                 ELSE /\ folder_made' = FALSE
                      /\ files' = EmptyDir
                      /\ raised' = raised \cup {Raise(1, NSE), Raise(1, Other)}
                      /\ pc' = AfterRaise(Other, "mainImage")
    /\ UNCHANGED <<runResult, limit, total_products_found, products_to_process, index, tile,
                   swatch_buttons, swatch_index, quitCount, loopHist, ctlHist, sanVars, csvVars>>

\* lines 125-137: main image capture
StepMainImage ==
    /\ pc = "mainImage"
    /\ ctlEvents' = << >>
    /\ stepsRun' = stepsRun \cup {2}
    /\ BrowserOp
    /\ \/ \E kind \in {NSE, Other} :
              /\ raised' = raised \cup {Raise(2, kind)}
              /\ pc' = AfterRaise(kind, "swatches")
              /\ dl' = NoDownload
              /\ UNCHANGED files
       \/ \* line 134: neither src nor data-src
          /\ pc' = "swatches"
          /\ dl' = NoDownload
          /\ UNCHANGED <<raised, files>>
       \/ \* lines 130-132
          \E fetch \in Fetches :
              /\ files' = download_image(fetch, MainImageFile, files).files
              /\ dl' = DownloadObs(fetch, MainImageFile, files)
              /\ pc' = "swatches"
              /\ UNCHANGED raised
    /\ UNCHANGED <<runResult, limit, total_products_found, products_to_process, index, tile,
                   prodVars, folder_made, quitCount, loopHist, ctlHist, sanVars, csvVars>>

(***************************************************************************)
(* main(): the swatch loop (src/main.py:141-186)                           *)
(***************************************************************************)
Activations == {[click |-> "ok", js |-> "-"], [click |-> "intercepted", js |-> "ok"]}

\* what the calls of lines 157-177 can do for one button; "-" marks a call never reached
ControlOutcomes ==
    {[scroll |-> "error", click |-> "-", js |-> "-", locate |-> "-", url |-> "-", fetch |-> NoFetch]}
    \cup {[scroll |-> "ok", click |-> "error", js |-> "-", locate |-> "-", url |-> "-", fetch |-> NoFetch]}
    \cup {[scroll |-> "ok", click |-> "intercepted", js |-> "error", locate |-> "-", url |-> "-",
           fetch |-> NoFetch]}
    \cup {[scroll |-> "ok", click |-> a.click, js |-> a.js, locate |-> l, url |-> "-", fetch |-> NoFetch] :
              a \in Activations, l \in {NSE, Other}}
    \cup {[scroll |-> "ok", click |-> a.click, js |-> a.js, locate |-> "ok", url |-> "none",
           fetch |-> NoFetch] : a \in Activations}
    \cup {[scroll |-> "ok", click |-> a.click, js |-> a.js, locate |-> "ok", url |-> "present",
           fetch |-> f] : a \in Activations, f \in Fetches}

\* variant of Activated: the result of the script click is ignored
ActivatedNativeOnly(o) == o.click = "ok"

\* lines 162-166: button.click(), and the script click when it was intercepted
Activated(o) == o.click = "ok" \/ (o.click = "intercepted" /\ o.js = "ok")

\* an exception left one of the calls of lines 157-173
ControlFailed(o) == o.scroll = "error" \/ ~Activated(o) \/ o.locate \in {NSE, Other}

\* line 175: if swatch_image_url
DownloadReached(o) == o.url = "present"

\* one call made for a button, with what it did
Ev(call, result) == [call |-> call, result |-> result]

\* the calls of lines 157-177 that were made, in the order of the code
ControlEvents(o) ==
    <<Ev("scroll", o.scroll)>>
    \o (IF o.scroll = "ok" THEN <<Ev("click", o.click)>> ELSE << >>)
    \o (IF o.click = "intercepted" THEN <<Ev("jsclick", o.js)>> ELSE << >>)
    \o (IF o.scroll = "ok" /\ Activated(o) THEN <<Ev("locate", IF o.locate = "ok" THEN "ok" ELSE "error")>>
        ELSE << >>)
    \o (IF o.locate = "ok" THEN <<Ev("read", o.url)>> ELSE << >>)
    \o (IF DownloadReached(o) THEN <<Ev("download", "called")>> ELSE << >>)

\* lines 141-152: the swatch lists and their buttons
StepSwatchFind ==
    /\ pc = "swatches"
    /\ NoStepObs
    /\ stepsRun' = stepsRun \cup {3}
    /\ BrowserOp
    /\ \/ \E kind \in {NSE, Other} :
              /\ raised' = raised \cup {Raise(3, kind)}
              /\ pc' = AfterRaise(kind, "details")
              /\ UNCHANGED <<swatch_buttons, swatch_index, loopEntered>>
       \/ \* line 183: no swatch list
          /\ pc' = "details"
          /\ UNCHANGED <<raised, swatch_buttons, swatch_index, loopEntered>>
       \/ \* lines 147-154
          \E k \in 0..MaxSwatch :
              /\ swatch_buttons' = [i \in 1..k |-> i]
              /\ swatch_index' = 0
              /\ loopEntered' = TRUE
              /\ pc' = "swatchLoop"
              /\ UNCHANGED raised
    /\ UNCHANGED <<runResult, limit, total_products_found, products_to_process, index, tile,
                   product_name, folder_name, storeVars, quitCount, loopHist,
                   ctlAttempted, ctlFailed, ctlCaptured, swatchWritten, sanVars, csvVars>>

\* lines 154-181: one button of enumerate(swatch_buttons, 1)
SwatchIter ==
    /\ pc = "swatchLoop"
    /\ swatch_index < Len(swatch_buttons)
    /\ swatch_index' = swatch_index + 1
    /\ BrowserOp
    /\ \E o \in ControlOutcomes :
           LET n == swatch_index + 1
               button == swatch_buttons[n]
               d == download_image(o.fetch, SwatchFile(n), files)
           IN /\ ctlAttempted' = Append(ctlAttempted, n)
              /\ ctlEvents' = ControlEvents(o)
              /\ ctlFailed' = IF ControlFailed(o) THEN ctlFailed \cup {n} ELSE ctlFailed
              /\ IF DownloadReached(o)
                 THEN /\ files' = d.files
                      /\ dl' = DownloadObs(o.fetch, SwatchFile(n), files)
                      /\ ctlCaptured' = IF d.ok THEN ctlCaptured \cup {button} ELSE ctlCaptured
                      /\ swatchWritten' = IF d.ok THEN swatchWritten \cup {SwatchFile(n)}
                                          ELSE swatchWritten
                 ELSE /\ dl' = NoDownload
                      /\ UNCHANGED <<files, ctlCaptured, swatchWritten>>
              /\ pc' = AfterControl(ControlFailed(o))
    /\ UNCHANGED <<runResult, limit, total_products_found, products_to_process, index, tile,
                   product_name, folder_name, swatch_buttons, folder_made, quitCount,
                   loopHist, stepHist, loopEntered, sanVars, csvVars>>

\* variant of SwatchLoopExit: the loop is left while buttons remain
SwatchLoopExitEarly ==
    /\ pc = "swatchLoop"
    /\ NoStepObs
    /\ pc' = "details"
    /\ UNCHANGED <<runResult, limit, total_products_found, products_to_process, index, tile,
                   prodVars, storeVars, sessVars, loopHist, stepHist, ctlHist, sanVars, csvVars>>

\* line 154: the button list is exhausted
SwatchLoopExit ==
    /\ pc = "swatchLoop"
    /\ NoStepObs
    /\ swatch_index >= Len(swatch_buttons)
    /\ pc' = "details"
    /\ UNCHANGED <<runResult, limit, total_products_found, products_to_process, index, tile,
                   prodVars, storeVars, sessVars, loopHist, stepHist, ctlHist, sanVars, csvVars>>

(***************************************************************************)
(* main(): details and pricing (src/main.py:190-255)                       *)
(***************************************************************************)
\* lines 212-246: the file written, by its product name and whether the pricing
\* section is present (line 222)
CsvRecord(name, pricing) == [kind |-> "csv", name |-> name, pricing |-> pricing = "text"]

StepDetails ==
    /\ pc = "details"
    /\ NoStepObs
    /\ stepsRun' = stepsRun \cup {4}
    /\ BrowserOp
    /\ \/ \* line 192-193: item-detail is missing, or the lookup fails otherwise
          \E kind \in {NSE, Other} :
              /\ raised' = raised \cup {Raise(4, kind)}
              /\ pc' = AfterRaise(kind, "productEnd")
              /\ undetailed' = IF kind = NSE THEN undetailed \cup {index} ELSE undetailed
              /\ UNCHANGED <<files, recorded>>
       \/ \* lines 196-246: pricing found with text, found empty, or missing (line 201)
          \E pricing \in {"text", "empty", NSE}, open \in {"ok", Other} :
              IF open = "ok"
              THEN /\ files' = WriteFile(files, CsvFile, CsvRecord(product_name, pricing))
                   /\ recorded' = recorded \cup {index}
                   /\ pc' = "productEnd"
                   /\ UNCHANGED <<raised, undetailed>>
              ELSE /\ raised' = raised \cup {Raise(4, Other)}
                   /\ pc' = AfterRaise(Other, "productEnd")
                   /\ UNCHANGED <<files, recorded, undetailed>>
    /\ UNCHANGED <<runResult, limit, total_products_found, products_to_process, index, tile,
                   prodVars, folder_made, quitCount, attempted, aborted, ctlHist, sanVars, csvVars>>

\* lines 257-260: the product is complete
ProductEnd ==
    /\ pc = "productEnd"
    /\ NoStepObs
    /\ pc' = "loop"
    /\ ResetProductHist
    /\ UnsetLocals
    /\ UNCHANGED <<runResult, limit, total_products_found, products_to_process, index, tile,
                   sessVars, loopHist, sanVars, csvVars>>

\* lines 262-264: the per-entry handler
ProductExcept ==
    /\ pc = "productExcept"
    /\ NoStepObs
    /\ aborted' = aborted \cup {index}
    /\ pc' = AfterEntryHandler
    /\ ResetProductHist
    /\ UnsetLocals
    /\ UNCHANGED <<runResult, limit, total_products_found, products_to_process, index, tile,
                   sessVars, attempted, recorded, undetailed, sanVars, csvVars>>

(***************************************************************************)
(* main(): the end of the run (src/main.py:266-285)                        *)
(***************************************************************************)
\* lines 266-274
Summary ==
    /\ pc = "summary"
    /\ NoStepObs
    /\ pc' = "finally"
    /\ runResult' = "completed"
    /\ UNCHANGED <<limit, total_products_found, products_to_process, index, tile,
                   prodVars, storeVars, sessVars, loopHist, stepHist, ctlHist, sanVars, csvVars>>

\* variant of ExceptTimeout: the handler goes back to the discovery wait
TimeoutRetries ==
    /\ pc = "exceptTimeout"
    /\ NoStepObs
    /\ pc' = "discover"
    /\ runResult' = "timeout"
    /\ UNCHANGED <<limit, total_products_found, products_to_process, index, tile,
                   prodVars, storeVars, sessVars, loopHist, stepHist, ctlHist, sanVars, csvVars>>

\* variant of ExceptTimeout: the handler leaves without the finally clause
TimeoutExits ==
    /\ pc = "exceptTimeout"
    /\ NoStepObs
    /\ pc' = "done"
    /\ UNCHANGED <<runResult, limit, total_products_found, products_to_process, index, tile,
                   prodVars, storeVars, sessVars, loopHist, stepHist, ctlHist, sanVars, csvVars>>

\* lines 276-277: except TimeoutException
ExceptTimeout ==
    /\ pc = "exceptTimeout"
    /\ NoStepObs
    /\ pc' = "finally"
    /\ runResult' = "timeout"
    /\ UNCHANGED <<limit, total_products_found, products_to_process, index, tile,
                   prodVars, storeVars, sessVars, loopHist, stepHist, ctlHist, sanVars, csvVars>>

\* lines 278-279: except Exception
ExceptOther ==
    /\ pc = "exceptOther"
    /\ NoStepObs
    /\ pc' = "finally"
    /\ runResult' = "error"
    /\ UNCHANGED <<limit, total_products_found, products_to_process, index, tile,
                   prodVars, storeVars, sessVars, loopHist, stepHist, ctlHist, sanVars, csvVars>>

\* lines 280-285: finally ... driver.quit()
Finally ==
    /\ pc = "finally"
    /\ NoStepObs
    /\ quitCount' = quitCount + 1
    /\ pc' = "done"
    /\ UNCHANGED <<runResult, limit, total_products_found, products_to_process, index, tile,
                   prodVars, storeVars, opAfterQuit, loopHist, stepHist, ctlHist, sanVars, csvVars>>

Next ==
    \/ Navigate
    \/ Discover
    \/ LoopNext
    \/ LoopExit
    \/ ScrollTile
    \/ StepName
    \/ StepMainImage
    \/ StepSwatchFind
    \/ SwatchIter
    \/ SwatchLoopExit
    \/ StepDetails
    \/ ProductEnd
    \/ ProductExcept
    \/ Summary
    \/ ExceptTimeout
    \/ ExceptOther
    \/ Finally

Spec == Init /\ [][Next]_vars

\* main() is one sequential thread: a step that can be taken is taken
FairSpec == Spec /\ WF_vars(Next)

(***************************************************************************)
(* The sanitizer on its own                                                *)
(***************************************************************************)
SanStart ==
    /\ pc = "idle"
    /\ limit = 0
    /\ MainStart
    /\ SanInit
    /\ CsvIdle

SanNext ==
    \/ SanApply /\ UNCHANGED <<ctrlVars, prodVars, storeVars, sessVars, loopHist, stepHist, ctlHist, stepObs, csvVars>>
    \/ SanReapply /\ UNCHANGED <<ctrlVars, prodVars, storeVars, sessVars, loopHist, stepHist, ctlHist, stepObs, csvVars>>

SpecSan == SanStart /\ [][SanNext]_vars

(***************************************************************************)
(* The details step on its own                                             *)
(***************************************************************************)
CsvStart ==
    /\ pc = "idle"
    /\ limit = 0
    /\ MainStart
    /\ SanIdle
    /\ CsvInit

CsvNext ==
    CsvWrite /\ UNCHANGED <<sanVars, ctrlVars, prodVars, storeVars, sessVars, loopHist, stepHist,
                            ctlHist, stepObs>>

SpecCsv == CsvStart /\ [][CsvNext]_vars

(***************************************************************************)
(* Properties                                                              *)
(***************************************************************************)
AfterLoop == {"summary", "finally", "done"}

ProductOver == pc \in {"productEnd", "productExcept"}

\* the position at which step s starts (5: the end of the step sequence)
StepPc(s) ==
    CASE s = 1 -> "name"
      [] s = 2 -> "mainImage"
      [] s = 3 -> "swatches"
      [] s = 4 -> "details"
      [] OTHER -> "productEnd"

\* C1 as stated: whatever exception reaches the try block of one of the four
\* steps is caught by that step, and once the product is over every later step
\* has been executed.
C1_AnyExceptionIsolated ==
    \A r \in raised :
        /\ r.caught = "step"
        /\ ProductOver => \A t \in 1..4 : t > r.step => t \in stepsRun

\* C1 amended: a step catches NoSuchElementException and nothing else.  After
\* a NoSuchElementException the step sequence goes on with the next step; an
\* exception of any other kind leaves the step, no later step of the product
\* is executed and control is at the per-entry handler.  A product that raised
\* nothing but NoSuchElementException is never sent to the per-entry handler
\* and ends with all four steps executed.
C1_OnlyNotFoundIsolated ==
    /\ \A r \in raised : r.caught = (IF r.kind = NSE THEN "step" ELSE "entry")
    /\ \A r \in raised :
           r.kind # NSE =>
               /\ pc = "productExcept"
               /\ \A t \in 1..4 : t > r.step => t \notin stepsRun
    /\ (\A r \in raised : r.kind = NSE) =>
           /\ stepsRun # {} => pc # "productExcept"
           /\ \A r \in raised : (r.step + 1) \in stepsRun \/ pc = StepPc(r.step + 1)
    /\ pc = "productEnd" => stepsRun = 1..4

\* C1 witness: a product whose name lookup and image lookup both raised
\* NoSuchElementException and that still ran all four steps
C1_Witness ==
    /\ pc = "productEnd"
    /\ stepsRun = 1..4
    /\ [step |-> 1, kind |-> NSE, caught |-> "step"] \in raised
    /\ [step |-> 2, kind |-> NSE, caught |-> "step"] \in raised

\* C2: after a successful discovery the entries are attempted in discovery
\* order and, when the loop is over, every one of 1..products_to_process has
\* been attempted, whichever of them ended in the per-entry handler; an entry
\* that ended there never takes the run to the outer handlers.
C2_EveryEntryAttempted ==
    /\ \A i \in 1..Len(attempted) : attempted[i] = i
    /\ aborted \subseteq 1..Len(attempted)
    /\ (pc \in AfterLoop /\ total_products_found >= 1) =>
           \A i \in 1..products_to_process : i <= Len(attempted) /\ attempted[i] = i
    /\ aborted # {} => runResult \in {"running", "completed"}

\* C2 witness: the run is over, entry 1 ended in the per-entry handler and entry 2
\* was attempted after it
C2_Witness ==
    /\ pc = "done"
    /\ 1 \in aborted
    /\ Len(attempted) = 2
    /\ runResult = "completed"

\* C3: the session is released at most once, no browser call follows the
\* release, and every execution reaches the release.
C3_SessionReleasedOnce ==
    /\ [](quitCount <= 1)
    /\ [](~opAfterQuit)
    /\ [](pc = "done" => quitCount = 1)
    /\ <>(quitCount = 1)

\* C3 witness: the run that ended by the discovery timeout has released the session
C3_Witness ==
    /\ pc = "done"
    /\ runResult = "timeout"
    /\ quitCount = 1

\* C4: with entriesFound >= 1 the entries started are never more than
\* min(limit, entriesFound), and when the loop is over they are exactly the first
\* min(limit, entriesFound) tiles in discovery order.
C4_ProcessesMinLimitFound ==
    LET m == IF limit <= total_products_found THEN limit ELSE total_products_found IN
    /\ total_products_found >= 1 => Len(attempted) <= m
    /\ (pc \in AfterLoop /\ total_products_found >= 1) => attempted = [i \in 1..m |-> i]

\* C4 witness: the limit is smaller than the number of tiles found and the run
\* has started exactly `limit` entries
C4_Witness ==
    /\ pc = "done"
    /\ limit >= 1
    /\ limit < total_products_found
    /\ Len(attempted) = limit

\* C5: inside the swatch loop the buttons handled so far are 1..swatch_index in
\* order; once the loop is left every button of the list has been attempted;
\* and a product in which a button failed is not sent to the per-entry handler
\* by that failure: it goes on to the details step.
C5_ControlFailureConfined ==
    /\ pc = "swatchLoop" => loopEntered /\ ctlAttempted = [i \in 1..swatch_index |-> i]
    /\ (loopEntered /\ pc \in {"details", "productEnd", "productExcept"}) =>
           ctlAttempted = [i \in 1..Len(swatch_buttons) |-> i]
    /\ ctlFailed # {} =>
           /\ pc \in {"swatchLoop", "details", "productEnd", "productExcept"}
           /\ ProductOver => 4 \in stepsRun

\* C5 witness: the first of two buttons failed, the second was attempted and the
\* product is at the details step
C5_Witness ==
    /\ pc = "details"
    /\ Len(swatch_buttons) = 2
    /\ 1 \in ctlFailed
    /\ ctlAttempted = <<1, 2>>

\* C6: the swatch files written by the loop are exactly the files swatch_n.jpg of
\* the buttons n that were activated, yielded a URL and were downloaded; such a
\* file holds the payload, and the file of a button that was handled without
\* being captured holds what it held before the loop.
C6_SwatchFilesKeepOrdinals ==
    /\ swatchWritten = {"swatch_" \o ToString(n) \o ".jpg" : n \in ctlCaptured}
    /\ \A n \in 1..Len(ctlAttempted) :
           LET f == "swatch_" \o ToString(n) \o ".jpg" IN
           IF n \in ctlCaptured
           THEN FileAt(files, f) \in Payloads
           ELSE FileAt(files, f) \in {"absent", "old"}

\* C6 witness: of two buttons the first failed and the second was captured; the
\* only file written is swatch_2.jpg
C6_Witness ==
    /\ pc = "details"
    /\ Len(swatch_buttons) = 2
    /\ 1 \in ctlFailed
    /\ ctlCaptured = {2}
    /\ swatchWritten = {"swatch_2.jpg"}

C8_SanitizeIdempotent == sanPc = "twice" => sanTwice = sanOut

NoStrayWhitespace(s) ==
    /\ s # << >> => s[1] \notin Whitespace /\ s[Len(s)] \notin Whitespace
    /\ \A i \in 1..(Len(s) - 1) : ~(s[i] \in Whitespace /\ s[i + 1] \in Whitespace)

\* C9 as stated: the sanitized name has no leading whitespace, no trailing
\* whitespace and no two adjacent whitespace characters.
C9_NoStrayWhitespace == sanPc \in {"once", "twice"} => NoStrayWhitespace(sanOut)

\* C10: the sanitized name holds none of the nine characters < > : " / \ | ? *
\* and is at most 100 characters long.
C10_NoIllegalCharsAndBounded ==
    sanPc \in {"once", "twice"} =>
        /\ \A i \in 1..Len(sanOut) :
               sanOut[i] \notin {"<", ">", ":", "\"", "/", "\\", "|", "?", "*"}
        /\ Len(sanOut) <= 100

\* C10 witness: an input longer than the limit that holds illegal characters was
\* sanitized to exactly 100 characters
C10_Witness ==
    /\ sanPc = "once"
    /\ Len(sanIn) > 100
    /\ \E i \in 1..Len(sanIn) : sanIn[i] \in {"/", "*"}
    /\ Len(sanOut) = 100

\* the rows of csvRows after the '=== DETAILS ===' row
DetailFields ==
    LET d == CHOOSE i \in 1..Len(csvRows) :
                 csvRows[i] = DetailsMarker /\ \A j \in (i + 1)..Len(csvRows) : csvRows[j] # DetailsMarker
    IN SubSeq(csvRows, d + 1, Len(csvRows))

\* the rows of csvRows between the '=== PRICING ===' row and the '=== DETAILS ===' row
PricingFields ==
    IF Len(csvRows) >= 3 /\ csvRows[3] = PricingMarker
    THEN SubSeq(csvRows, 4, Len(csvRows) - Len(DetailFields) - 1)
    ELSE << >>

IsBlank(line) == Strip(line) = << >>

NonBlankUpTo(lines, i) == Cardinality({j \in 1..i : ~IsBlank(lines[j])})

\* every colon-free non-blank line of `lines` has its row in `fields`, labelled
\* with the number num[i] of the line
FallbackNumbered(prefix, lines, fields, num) ==
    /\ Len(fields) = NonBlankUpTo(lines, Len(lines))
    /\ \A i \in 1..Len(lines) :
           (~IsBlank(lines[i]) /\ ~HasColon(lines[i])) =>
               fields[NonBlankUpTo(lines, i)] = <<FallbackLabel(prefix, num[i]), Strip(lines[i])>>

\* C11 as stated: the number in the fallback label of a colon-free non-blank
\* line is the position of the line among the non-blank lines of its block.
C11_NumberedAmongNonBlank ==
    csvPc = "written" =>
        /\ LET lines == DetailLines(detail_text)
               num == [i \in 1..Len(lines) |-> NonBlankUpTo(lines, i)]
           IN FallbackNumbered(DetailPrefix, lines, DetailFields, num)
        /\ LET lines == PricingLines(pricing_text)
               num == [i \in 1..Len(lines) |-> NonBlankUpTo(lines, i)]
           IN FallbackNumbered(PricePrefix, lines, PricingFields, num)

\* C11 amended: the number in the fallback label of a colon-free non-blank line
\* is the position of the line among all the lines of the trimmed block, blank
\* lines included; a blank line inside the block advances the number.
C11_NumberedAmongAllLines ==
    csvPc = "written" =>
        /\ LET lines == DetailLines(detail_text)
               num == [i \in 1..Len(lines) |-> i]
           IN FallbackNumbered(DetailPrefix, lines, DetailFields, num)
        /\ LET lines == PricingLines(pricing_text)
               num == [i \in 1..Len(lines) |-> i]
           IN FallbackNumbered(PricePrefix, lines, PricingFields, num)

\* C11 witness: the detail text "a\n\na" was written; its second non-blank line
\* is labelled 'Detail 3'
C11_Witness ==
    /\ csvPc = "written"
    /\ detail_text = <<"a", "\n", "\n", "a">>
    /\ DetailFields = <<<<FallbackLabel(DetailPrefix, 1), <<"a">>>>,
                        <<FallbackLabel(DetailPrefix, 3), <<"a">>>>>>

\* C12: after the header row the record holds the ('Product Name', name) row;
\* then, exactly when a non-empty pricing text was read, the '=== PRICING ==='
\* row and the pricing fields; then the '=== DETAILS ===' row and the detail
\* fields.  A product whose pricing element is missing or empty has no
\* '=== PRICING ===' row, and every pricing field comes before the
\* '=== DETAILS ===' row, every detail field after it.
C12_RecordRowOrder ==
    csvPc = "written" =>
        LET nameRow == <<ProductNameLabel, csvName>>
            pf == ParseLines(PricePrefix, SplitLines(Strip(pricing_text)))
            df == ParseLines(DetailPrefix, SplitLines(Strip(detail_text)))
            hasPricing == pricing_found /\ pricing_text # << >>
        IN /\ csvRows[1] = HeaderRow
           /\ csvRows[2] = nameRow
           /\ IF hasPricing
              THEN Tail(csvRows) = <<nameRow, PricingMarker>> \o pf \o <<DetailsMarker>> \o df
              ELSE Tail(csvRows) = <<nameRow, DetailsMarker>> \o df
           /\ ~hasPricing => \A i \in 1..Len(csvRows) : csvRows[i] # PricingMarker
           /\ PricingFields = (IF hasPricing THEN pf ELSE << >>)
           /\ DetailFields = df

\* C12 witness: a record with one pricing field and one detail field
C12_Witness ==
    /\ csvPc = "written"
    /\ pricing_found
    /\ csvRows = <<HeaderRow,
                   <<ProductNameLabel, <<"A", "/">>>>,
                   PricingMarker,
                   <<FallbackLabel(PricePrefix, 1), <<"a">>>>,
                   DetailsMarker,
                   <<<<"a">>, <<"a">>>>>>

\* the discovery wait of lines 75-78 has ended with TimeoutException
DiscoveryTimedOut == pc = "exceptTimeout" \/ runResult = "timeout"

\* C13: once the discovery wait has timed out, no entry has been or is ever
\* processed, no folder, image or record is written, the run result is the
\* timeout error, and the only step that follows the handler is the release of
\* the browser session, after which nothing happens.
C13_TimeoutIsTerminal ==
    /\ [](DiscoveryTimedOut =>
              /\ pc \in {"exceptTimeout", "finally", "done"}
              /\ total_products_found = 0
              /\ attempted = << >> /\ index = 0 /\ stepsRun = {}
              /\ aborted = {} /\ recorded = {}
              /\ ~folder_made /\ files = EmptyDir)
    /\ [][pc = "exceptTimeout" => (pc' = "finally" /\ runResult' = "timeout")]_vars
    /\ [][runResult = "timeout" =>
              /\ pc = "finally"
              /\ pc' = "done"
              /\ quitCount' = quitCount + 1
              /\ UNCHANGED <<runResult, storeVars, loopHist, stepHist>>]_vars

\* C13 witness: the timeout handler has run and the session is not yet released
C13_Witness ==
    /\ runResult = "timeout"
    /\ pc = "finally"
    /\ quitCount = 0
    /\ attempted = << >>

\* C14 as stated: when the loop is over, fewer records than products_to_process
\* means that some entry ended in the per-entry handler, and an entry that
\* reaches the end of its step sequence has its record.
C14_RecordUnlessSkipped ==
    /\ (pc \in AfterLoop /\ total_products_found >= 1
            /\ Cardinality(recorded) < products_to_process) => aborted # {}
    /\ pc = "productEnd" => index \in recorded

\* C14 amended: an entry that reaches the end of its step sequence has its
\* record unless its item-detail lookup raised NoSuchElementException, which
\* the details step catches without writing anything; an entry that ended in the
\* per-entry handler has none.  When the loop is over every entry is in exactly
\* one of the three groups, so fewer records than products_to_process means
\* that some entry was skipped by the per-entry handler or had no item-detail
\* element.
C14_RecordUnlessSkippedOrNoDetail ==
    /\ pc = "productEnd" =>
           /\ index \in recorded <=> index \notin undetailed
           /\ index \notin aborted
    /\ pc = "productExcept" => index \notin recorded
    /\ recorded \cap aborted = {} /\ recorded \cap undetailed = {}
    /\ (pc \in AfterLoop /\ total_products_found >= 1) =>
           /\ recorded \cup aborted \cup undetailed = 1..products_to_process
           /\ undetailed \cap aborted = {}
           /\ Cardinality(recorded) < products_to_process =>
                  aborted # {} \/ undetailed # {}

\* C14 witness: a completed run of two entries, none of them skipped, in which
\* entry 1 had no item-detail element and only entry 2 has a record
C14_Witness ==
    /\ pc = "done"
    /\ runResult = "completed"
    /\ products_to_process = 2
    /\ aborted = {}
    /\ undetailed = {1}
    /\ recorded = {2}

\* the place of a call in the body of the swatch loop (lines 157-177)
CallRank(call) ==
    CASE call = "scroll" -> 1
      [] call = "click" -> 2
      [] call = "jsclick" -> 3
      [] call = "locate" -> 4
      [] call = "read" -> 5
      [] call = "download" -> 6

\* C15: the calls made for one button come in the order scroll, click, script
\* click, image lookup, URL read, download, each at most once; the script click
\* is made exactly when the native click of the same button was intercepted;
\* the image lookup is made exactly when the click or the script click
\* succeeded; and for a button whose activation failed there is no lookup, no
\* URL read and no download, and the button is counted as failed.
C15_ControlEventOrder ==
    ctlEvents # << >> =>
        LET n == Len(ctlEvents)
            Has(call) == \E i \in 1..n : ctlEvents[i].call = call
            activated == \E i \in 1..n :
                             ctlEvents[i].call \in {"click", "jsclick"} /\ ctlEvents[i].result = "ok"
        IN /\ ctlEvents[1].call = "scroll"
           /\ \A i, j \in 1..n :
                  i < j => CallRank(ctlEvents[i].call) < CallRank(ctlEvents[j].call)
           /\ \A i \in 1..n :
                  ctlEvents[i].call = "click" => ctlEvents[i - 1] = Ev("scroll", "ok")
           /\ \A i \in 1..n :
                  ctlEvents[i].call = "jsclick" => ctlEvents[i - 1] = Ev("click", "intercepted")
           /\ \A i \in 1..n :
                  ctlEvents[i] = Ev("click", "intercepted") =>
                      i < n /\ ctlEvents[i + 1].call = "jsclick"
           /\ activated <=> Has("locate")
           /\ \A i \in 1..n :
                  ctlEvents[i].call = "read" => ctlEvents[i - 1] = Ev("locate", "ok")
           /\ \A i \in 1..n :
                  ctlEvents[i].call = "download" => ctlEvents[i - 1] = Ev("read", "present")
           /\ dl.called <=> Has("download")
           /\ ~activated =>
                  /\ ~Has("locate") /\ ~Has("read") /\ ~Has("download")
                  /\ ~dl.called
                  /\ swatch_index \in ctlFailed
                  /\ swatch_index \notin ctlCaptured

\* C15 witness: the native click was intercepted, the script click succeeded and
\* the image was downloaded
C15_Witness ==
    /\ ctlEvents = <<Ev("scroll", "ok"), Ev("click", "intercepted"), Ev("jsclick", "ok"),
                     Ev("locate", "ok"), Ev("read", "present"), Ev("download", "called")>>
    /\ dl.ok
    /\ swatch_index \in ctlCaptured

\* C16 as stated: a download_image call prints exactly one line, the success
\* line when it returns True and the failure line when it returns False.
C16_OneReportLinePerCall ==
    dl.called =>
        /\ Len(dl.log) = 1
        /\ dl.log[1] = (IF dl.ok THEN "success" ELSE "failure")

\* C17 as stated: the folder of a product that is being processed has a
\* non-empty name (Product_<index> when the sanitizer yields the empty string),
\* so whatever the product writes goes into a subfolder of scraped_products.
C17_FolderNameNeverEmpty ==
    folder_made =>
        /\ folder_name # << >>
        /\ sanitize_folder_name(product_name) = << >> => folder_name = DefaultName(index)
        /\ dl.called /\ dl.ok => folder_name # << >>

\* C18 as stated: the entries processed so far are at most the configured
\* limit, and the configured limit is at most the number of tiles on the page.
C18_ProcessedLeLimitLePresent ==
    total_products_found >= 1 =>
        /\ Len(attempted) <= limit
        /\ limit <= total_products_found

\* C18 amended: the entries processed so far are at most the configured limit
\* and at most the number of tiles on the page; the limit itself is not bounded
\* by the page, and when it is larger every tile of the page is processed.
C18_ProcessedLeLimitAndPresent ==
    /\ Len(attempted) <= limit
    /\ index = Len(attempted)
    /\ total_products_found >= 1 =>
           /\ Len(attempted) <= products_to_process
           /\ products_to_process <= limit
           /\ products_to_process <= total_products_found
           /\ (pc \in AfterLoop /\ limit > total_products_found) =>
                  Len(attempted) = total_products_found

\* C18 witness: the limit is larger than the number of tiles found and the run
\* has processed every tile
C18_Witness ==
    /\ pc = "done"
    /\ runResult = "completed"
    /\ total_products_found = 1
    /\ limit = 2
    /\ Len(attempted) = 1

\* positions inside the processing of one product
InProduct ==
    {"scrollTile", "name", "mainImage", "swatches", "swatchLoop", "details",
     "productEnd", "productExcept"}

\* C19: within a product no swatch button is handled before the main image step
\* has run, and the record is written only when every button of the list has
\* been handled; every step works on the tile of the current index, the index
\* moves on by one, only from the head of the loop, and only when the product
\* before it has ended (recorded, left without item-detail, or caught by the
\* per-entry handler) and nothing of it is still in progress.
C19_StepsInOrder ==
    /\ [](pc \in {"scrollTile", "name", "mainImage"} =>
              ~loopEntered /\ ctlAttempted = << >> /\ index \notin recorded)
    /\ [](ctlAttempted # << >> => {1, 2, 3} \subseteq stepsRun)
    /\ [](pc \in {"swatches", "swatchLoop"} =>
              2 \in stepsRun /\ 4 \notin stepsRun /\ index \notin recorded
                  /\ CsvFile \notin DOMAIN files)
    /\ [](CsvFile \in DOMAIN files =>
              /\ pc = "productEnd" /\ index \in recorded
              /\ stepsRun = 1..4
              /\ loopEntered => ctlAttempted = [i \in 1..Len(swatch_buttons) |-> i])
    /\ [](pc \in InProduct => index >= 1 /\ tile = index /\ attempted[Len(attempted)] = index)
    /\ [](pc = "loop" =>
              /\ stepsRun = {} /\ ctlAttempted = << >>
              /\ \A i \in 1..index : i \in recorded \cup undetailed \cup aborted)
    /\ [][index' # index => (pc = "loop" /\ pc' = "scrollTile" /\ index' = index + 1)]_vars
    /\ [][(pc \in InProduct /\ pc' \notin InProduct) =>
              (pc \in {"productEnd", "productExcept"} /\ pc' = "loop")]_vars

\* C19 witness: the second product has written its record after its main image
\* and both of its buttons, the first product having ended before
C19_Witness ==
    /\ pc = "productEnd"
    /\ index = 2
    /\ 1 \in recorded
    /\ FileAt(files, MainImageFile) = "B1"
    /\ ctlAttempted = <<1, 2>>
    /\ CsvFile \in DOMAIN files

====
